---- MODULE Spec2Model ----
(***************************************************************************)
(* Model of RestAPI_CREATE_ORG_TEAMS-MEMBERS.py: transfer_teams and the    *)
(* four API-call functions it drives (get_teams, create_team,              *)
(* get_team_members, add_members_to_team).                                 *)
(*                                                                         *)
(* Every HTTP call of the script is a blocking requests.get/post/put.  It  *)
(* is modelled by two steps: the call (the request is appended to          *)
(* `requests` and is outstanding) and its outcome, which the platform      *)
(* chooses: a response with some status code and body, or a transport      *)
(* failure, which `requests` reports by raising.  No function of the       *)
(* script has a try/except, so a raised exception unwinds the whole run.   *)
(*                                                                         *)
(* The bearer token is read once and sent unchanged with every request;    *)
(* no branch of the script depends on it, and the printed diagnostics      *)
(* change no state: neither is part of the model.  `requests` and          *)
(* `results` are history variables: the script keeps no such record.       *)
(***************************************************************************)
EXTENDS Integers, Sequences, FiniteSets

\* ---------------------------------------------------------------- bounds
MaxTeams == 2
MaxMembers == 2

\* ------------------------------------------------------ program constants
HTTP_OK == 200
HTTP_CREATED == 201

\* ------------------------------------------------------------ environment
\* Status codes the platform may answer any request with.
Statuses == {HTTP_OK, HTTP_CREATED, 500}

\* Organization names the destination may be given as on the command line
\* (nothing validates the arguments, so it may be the source organization).
Orgs == {"Acme", "Zenith"}

TeamNames == <<"core", "infra", "ops", "docs">>
LoginNames == <<"alice", "bob", "carol", "dave">>

\* Identifiers of the teams of the source organization, in the order the
\* platform lists them (not the order of the identifiers).  The script reads
\* a team only to pass it on, so one listing order stands for all.
SourceTeamIds == [k \in 1..MaxTeams |-> MaxTeams + 1 - k]

\* A team object as the platform lists it.
SourceTeam(k) == [id |-> k, name |-> TeamNames[k]]

\* The identifier the platform assigns to a team created from `t`: platform
\* identifiers are unique, so it differs from every source identifier.
FreshId(t) == 100 + t.id

\* Identifiers a 201 answer to "create `t`" may carry: the fresh one, or a
\* falsy one (the case add_members_to_team guards against).
DestIds(t) == {FreshId(t), 0}

Logins == {LoginNames[k] : k \in 1..MaxMembers}

Range(s) == {s[k] : k \in 1..Len(s)}

\* Sequences without repetition over S, of length at most n.
RECURSIVE DistinctSeqs(_, _)
DistinctSeqs(S, n) ==
    IF n = 0 THEN {<<>>}
    ELSE LET shorter == DistinctSeqs(S, n - 1)
         IN  shorter \cup
             UNION {{Append(s, x) : x \in S \ Range(s)} :
                        s \in {q \in shorter : Len(q) = n - 1}}

\* Bodies a 200 answer to the team listing may carry: the first n teams of
\* the source organization, for every n up to MaxTeams.
TeamLists ==
    {[k \in 1..n |-> SourceTeam(SourceTeamIds[k])] : n \in 0..MaxTeams}

\* Bodies a 200 answer to a member listing may carry: the members of the
\* team in any order, up to MaxMembers of them.
MemberLists ==
    {[k \in 1..Len(ls) |-> [login |-> ls[k]]] :
        ls \in DistinctSeqs(Logins, MaxMembers)}

\* ------------------------------------------------------------ Python values
None == [none |-> TRUE]
Some(v) == [none |-> FALSE, v |-> v]

\* `if x:` for x a list or None.
TruthyList(x) == ~x.none /\ x.v # <<>>

\* `if x:` for x a JSON object (a dict with keys) or None.
TruthyObject(x) == ~x.none

\* Mutant of TruthyId: the guard written `if team_id is None:`.
TruthyId_NoneOnly(x) == ~x.none

\* `if not team_id:` is taken for None and for 0.
TruthyId(x) == ~x.none /\ x.v # 0

VARIABLES
    source_org,         \* args.source_org
    destination_org,    \* args.destination_org
    pc,                 \* position of the run
    teams,              \* transfer_teams: teams
    i,                  \* transfer_teams: index of `team` in teams
    new_team_response,  \* transfer_teams: new_team_response
    new_team_id,        \* transfer_teams: new_team_id
    team_members,       \* transfer_teams: team_members
    j,                  \* add_members_to_team: index of `member` in members
                        \* (0 outside the function)
    response,           \* add_members_to_team: response.status_code of the
                        \* last PUT (0 outside the function)
    raised_in,          \* function out of which an exception propagated
    outstanding,        \* number of requests issued and not yet returned
    requests,           \* history: the requests issued, in order
    results             \* history: what get_teams, create_team and
                        \* get_team_members returned to transfer_teams

vars == <<source_org, destination_org, pc, teams, i, new_team_response,
          new_team_id, team_members, j, response, raised_in, outstanding,
          requests, results>>

locals == <<teams, i, new_team_response, new_team_id, team_members, j>>

\* The team of the current iteration of `for team in teams`.
team == teams.v[i]

\* ------------------------------------------------------------------ requests
\* `src` is bookkeeping: the index of the source team the request is made
\* for (0 for the listing of the source organization).
ListTeamsRequest(org) ==
    [method |-> "GET", path |-> "/orgs/{org}/teams", org |-> org, src |-> 0]

CreateTeamRequest(org, team_data, k) ==
    [method |-> "POST", path |-> "/orgs/{org}/teams", org |-> org,
     json |-> team_data, src |-> k]

ListMembersRequest(team_id, k) ==
    [method |-> "GET", path |-> "/teams/{team_id}/members",
     team_id |-> team_id, src |-> k]

\* Mutant of PutMemberRequest: the URL built from the source team's id.
PutMemberRequest_ToSourceTeam(team_id, username, k) ==
    [method |-> "PUT", path |-> "/teams/{team_id}/memberships/{username}",
     team_id |-> teams.v[k].id, username |-> username, src |-> k]

PutMemberRequest(team_id, username, k) ==
    [method |-> "PUT", path |-> "/teams/{team_id}/memberships/{username}",
     team_id |-> team_id, username |-> username, src |-> k]

Issue(req) ==
    /\ requests' = Append(requests, req)
    /\ outstanding' = outstanding + 1

\* The outstanding request returns a response.
Responds ==
    /\ outstanding' = outstanding - 1
    /\ UNCHANGED requests

\* Function fn, called for the source team of index k, got status st and
\* returns value v (None, or the parsed body) to transfer_teams.
Return(fn, k, st, v) ==
    results' = Append(results, [fn |-> fn, src |-> k, status |-> st, value |-> v])

\* Mutant of ListingSucceeded: any 2xx status taken for success.
ListingSucceeded_Any2xx(st) == st >= 200 /\ st < 300

\* Mutant of CreationSucceeded: 200 taken for success as well as 201.
CreationSucceeded_OkToo(st) == st \in {HTTP_OK, HTTP_CREATED}

\* `if response.status_code == 200:` of get_teams and get_team_members.
ListingSucceeded(st) == st = HTTP_OK

\* `if response.status_code == 201:` of create_team.
CreationSucceeded(st) == st = HTTP_CREATED

\* Mutant of GoNextTeam: the loop left (`break`) instead of continued.
GoNextTeam_Break == i' = i /\ pc' = "done"

\* `for team in teams` after the iteration of index i: the next team, or
\* the end of transfer_teams.
GoNextTeam ==
    IF i < Len(teams.v)
    THEN i' = i + 1 /\ pc' = "call_create_team"
    ELSE i' = i /\ pc' = "done"

\* ------------------------------------------------------------------- Init
Init ==
    /\ source_org = "Acme"
    /\ destination_org \in Orgs
    /\ pc = "start"
    /\ teams = None
    /\ i = 0
    /\ new_team_response = None
    /\ new_team_id = None
    /\ team_members = None
    /\ j = 0
    /\ response = 0
    /\ raised_in = "none"
    /\ outstanding = 0
    /\ requests = <<>>
    /\ results = <<>>

\* ---------------------------------------------------------------- actions
\* transfer_teams calls get_teams, which issues the listing GET.
CallGetTeams ==
    /\ pc = "start"
    /\ Issue(ListTeamsRequest(source_org))
    /\ pc' = "get_teams"
    /\ UNCHANGED <<source_org, destination_org, locals, response, raised_in, results>>

\* get_teams returns the body on 200 and None otherwise; `if teams:` enters
\* the loop only for a non-empty list.
GetTeamsReturns ==
    /\ pc = "get_teams"
    /\ \E st \in Statuses, body \in TeamLists :
        /\ Responds
        /\ teams' = IF ListingSucceeded(st) THEN Some(body) ELSE None
        /\ Return("get_teams", 0, st, teams')
        /\ IF TruthyList(teams')
           THEN i' = 1 /\ pc' = "call_create_team"
           ELSE i' = i /\ pc' = "done"
    /\ UNCHANGED <<source_org, destination_org, new_team_response, new_team_id,
                   team_members, j, response, raised_in>>

\* create_team(destination_org, access_token, team) issues the POST.
CallCreateTeam ==
    /\ pc = "call_create_team"
    /\ Issue(CreateTeamRequest(destination_org, team, i))
    /\ pc' = "create_team"
    /\ UNCHANGED <<source_org, destination_org, locals, response, raised_in, results>>

\* create_team returns the created team on 201 and None otherwise;
\* `if new_team_response:` reads its id and goes on to the member listing,
\* or else the loop goes to the next team.
CreateTeamReturns ==
    /\ pc = "create_team"
    /\ \E st \in Statuses, id \in DestIds(team) :
        /\ Responds
        /\ new_team_response' =
              IF CreationSucceeded(st)
              THEN Some([id |-> id, name |-> team.name])
              ELSE None
        /\ Return("create_team", i, st, new_team_response')
        /\ IF TruthyObject(new_team_response')
           THEN /\ new_team_id' = Some(new_team_response'.v.id)
                /\ pc' = "call_get_team_members"
                /\ i' = i
           ELSE /\ new_team_id' = new_team_id
                /\ GoNextTeam
    /\ UNCHANGED <<source_org, destination_org, teams, team_members, j, response,
                   raised_in>>

\* get_team_members(team['id'], access_token) issues the GET.
CallGetTeamMembers ==
    /\ pc = "call_get_team_members"
    /\ Issue(ListMembersRequest(team.id, i))
    /\ pc' = "get_team_members"
    /\ UNCHANGED <<source_org, destination_org, locals, response, raised_in, results>>

\* get_team_members returns the body on 200 and None otherwise;
\* `if team_members:` calls add_members_to_team only for a non-empty list.
GetTeamMembersReturns ==
    /\ pc = "get_team_members"
    /\ \E st \in Statuses, body \in MemberLists :
        /\ Responds
        /\ team_members' = IF ListingSucceeded(st) THEN Some(body) ELSE None
        /\ Return("get_team_members", i, st, team_members')
        /\ IF TruthyList(team_members')
           THEN i' = i /\ pc' = "add_members_to_team"
           ELSE GoNextTeam
    /\ UNCHANGED <<source_org, destination_org, teams, new_team_response,
                   new_team_id, j, response, raised_in>>

\* add_members_to_team(new_team_id, access_token, team_members): the guard
\* `if not team_id: ... return`, else the first iteration of the loop.
AddMembersToTeam ==
    /\ pc = "add_members_to_team"
    /\ IF TruthyId(new_team_id)
       THEN j' = 1 /\ i' = i /\ pc' = "call_put"
       ELSE j' = j /\ GoNextTeam
    /\ UNCHANGED <<source_org, destination_org, teams, new_team_response,
                   new_team_id, team_members, response, raised_in, outstanding,
                   requests, results>>

\* Mutant of CallPut: the PUT sent without waiting for its answer, the loop
\* going straight on to the next member.
CallPut_NoWait ==
    /\ pc = "call_put"
    /\ Issue(PutMemberRequest(new_team_id.v, team_members.v[j].login, i))
    /\ IF j < Len(team_members.v)
       THEN j' = j + 1 /\ pc' = "call_put"
       ELSE j' = j /\ pc' = "put_member"
    /\ UNCHANGED <<source_org, destination_org, teams, i, new_team_response,
                   new_team_id, team_members, response, raised_in, results>>

\* requests.put(f"{url}/{username}") for member j of the list.
CallPut ==
    /\ pc = "call_put"
    /\ Issue(PutMemberRequest(new_team_id.v, team_members.v[j].login, i))
    /\ pc' = "put_member"
    /\ UNCHANGED <<source_org, destination_org, locals, response, raised_in, results>>

\* Mutant of PutReturns: the loop left at the first PUT not answered 200.
PutReturns_StopOnFailure ==
    /\ pc = "put_member"
    /\ Responds
    /\ \E st \in Statuses :
        IF j < Len(team_members.v) /\ st = HTTP_OK
        THEN response' = st /\ j' = j + 1 /\ i' = i /\ pc' = "call_put"
        ELSE response' = 0 /\ j' = 0 /\ GoNextTeam
    /\ UNCHANGED <<source_org, destination_org, teams, new_team_response,
                   new_team_id, team_members, raised_in, results>>

\* Whatever the status, a line is printed and the loop goes to the next
\* member; after the last one add_members_to_team returns.
PutReturns ==
    /\ pc = "put_member"
    /\ Responds
    /\ \E st \in Statuses :
        IF j < Len(team_members.v)
        THEN response' = st /\ j' = j + 1 /\ i' = i /\ pc' = "call_put"
        ELSE response' = 0 /\ j' = 0 /\ GoNextTeam
    /\ UNCHANGED <<source_org, destination_org, teams, new_team_response,
                   new_team_id, team_members, raised_in, results>>

\* The function a request is waited for in, at each waiting position.
Caller ==
    [get_teams |-> "get_teams", create_team |-> "create_team",
     get_team_members |-> "get_team_members",
     put_member |-> "add_members_to_team"]

\* requests.get/post/put raises (no connection, connection reset, ...):
\* nothing catches it, the run ends with a traceback.
RequestRaises ==
    /\ pc \in DOMAIN Caller
    /\ raised_in' = Caller[pc]
    /\ pc' = "raised"
    /\ outstanding' = outstanding - 1
    /\ UNCHANGED <<source_org, destination_org, locals, response, requests, results>>

Next ==
    \/ CallGetTeams
    \/ GetTeamsReturns
    \/ CallCreateTeam
    \/ CreateTeamReturns
    \/ CallGetTeamMembers
    \/ GetTeamMembersReturns
    \/ AddMembersToTeam
    \/ CallPut
    \/ PutReturns
    \/ RequestRaises

Spec == Init /\ [][Next]_vars

\* The run is over: transfer_teams returned, or an exception ended it.
Halted == pc \in {"done", "raised"}

TypeOK ==
    /\ pc \in {"start", "get_teams", "call_create_team", "create_team",
               "call_get_team_members", "get_team_members",
               "add_members_to_team", "call_put", "put_member", "done", "raised"}
    /\ outstanding \in 0..1

\* ------------------------------------------------------------ history views
\* The requests of method m issued for the source team of index k.
RequestsFor(m, k) == SelectSeq(requests, LAMBDA r : r.method = m /\ r.src = k)

Posts == SelectSeq(requests, LAMBDA r : r.method = "POST")

\* What function fn returned for the source team of index k.
ResultsOf(fn, k) == SelectSeq(results, LAMBDA e : e.fn = fn /\ e.src = k)

TeamIndexes == 1..MaxTeams

\* ---------------------------------------------------------------------- C1
\* C1 (as claimed): once the run is over after a non-empty listing, exactly
\* one create-team POST was issued per listed team, to the destination
\* organization, with the team's object as the body, in listing order --
\* whatever the outcomes of the earlier teams' requests.
C1_OnePostPerTeamInOrder ==
    (Halted /\ TruthyList(teams)) =>
        /\ Len(Posts) = Len(teams.v)
        /\ \A k \in 1..Len(Posts) :
              Posts[k] = CreateTeamRequest(destination_org, teams.v[k], k)

\* The same statement for the runs in which every request is answered with
\* a status code (no request raises): it holds there.
C1_HoldsWhenEveryRequestIsAnswered ==
    (pc = "done" /\ TruthyList(teams)) =>
        /\ Len(Posts) = Len(teams.v)
        /\ \A k \in 1..Len(Posts) :
              Posts[k] = CreateTeamRequest(destination_org, teams.v[k], k)

\* ---------------------------------------------------------------------- C2
\* C2: every member-fetch GET and every member-addition PUT issued for a
\* source team comes after create_team returned for that team from a 201
\* answer; a PUT moreover needs the created team's identifier to be usable
\* (truthy) and is addressed to it.  A team whose creation was answered with
\* another status gets no member-fetch GET and no PUT.
C2_MembersOnlyAfterCreation ==
    /\ \A n \in 1..Len(requests) :
          LET r == requests[n] IN
          (r.src > 0 /\ r.method \in {"GET", "PUT"}) =>
              LET created == ResultsOf("create_team", r.src) IN
              /\ Len(created) = 1
              /\ created[1].status = HTTP_CREATED
              /\ ~created[1].value.none
              /\ r.method = "PUT" =>
                    /\ created[1].value.v.id # 0
                    /\ r.team_id = created[1].value.v.id
    /\ \A k \in TeamIndexes :
          LET created == ResultsOf("create_team", k) IN
          (Len(created) > 0 /\ created[1].status # HTTP_CREATED) =>
              /\ RequestsFor("GET", k) = <<>>
              /\ RequestsFor("PUT", k) = <<>>

\* Witness: one team was created (201) and got a PUT, another team's
\* creation failed and the run went through to its end.
C2_Witness ==
    /\ pc = "done"
    /\ \E k \in TeamIndexes : RequestsFor("PUT", k) # <<>>
    /\ \E k \in TeamIndexes :
          /\ Len(ResultsOf("create_team", k)) = 1
          /\ ResultsOf("create_team", k)[1].status # HTTP_CREATED

\* ---------------------------------------------------------------------- C5
\* C5: if get_teams was answered with a status other than 200, or with 200
\* and an empty list, the run is over and its only request is the listing
\* GET of the source organization.
C5_EmptyListingOnlyLists ==
    (/\ Len(results) > 0
     /\ \/ results[1].status # HTTP_OK
        \/ results[1].value.none
        \/ results[1].value.v = <<>>) =>
        /\ pc = "done"
        /\ requests = <<ListTeamsRequest(source_org)>>

\* Witness: the listing was answered 200 with zero teams.
C5_Witness ==
    /\ pc = "done"
    /\ Len(results) = 1
    /\ results[1].status = HTTP_OK
    /\ results[1].value = Some(<<>>)

\* ---------------------------------------------------------------------- C6
\* The member list add_members_to_team was called with for team k.
MembersOf(k) == ResultsOf("get_team_members", k)[1].value.v

\* add_members_to_team was called for team k with a valid identifier and is
\* past its guard.
AddMembersCalled(k) ==
    /\ Len(ResultsOf("get_team_members", k)) = 1
    /\ TruthyList(ResultsOf("get_team_members", k)[1].value)
    /\ ResultsOf("create_team", k)[1].value.v.id # 0
    /\ (k < i \/ pc # "add_members_to_team")

\* add_members_to_team has returned for team k.
AddMembersReturned(k) == AddMembersCalled(k) /\ (k < i \/ pc = "done")

\* C6: in add_members_to_team with a valid identifier the PUTs issued so far
\* are, in list order and one each, those of the first members of the list,
\* each addressed by the member's login; a PUT answered with any status is
\* followed by the next member's, and when the function returns every
\* member of the list has had exactly one PUT.
C6_OnePutPerMemberInOrder ==
    \A k \in TeamIndexes :
        LET puts == RequestsFor("PUT", k) IN
        /\ puts # <<>> => AddMembersCalled(k)
        /\ AddMembersCalled(k) =>
              /\ Len(puts) <= Len(MembersOf(k))
              /\ \A m \in 1..Len(puts) : puts[m].username = MembersOf(k)[m].login
              /\ (k = i /\ pc = "call_put") => Len(puts) = j - 1
              /\ (k = i /\ pc = "put_member") => Len(puts) = j
        /\ AddMembersReturned(k) => Len(puts) = Len(MembersOf(k))

\* Witness: the PUT of the first member was answered with a status other
\* than 200 and the PUT of the second member has been issued.
C6_Witness ==
    /\ pc = "put_member"
    /\ j = 2
    /\ response # HTTP_OK
    /\ Len(RequestsFor("PUT", i)) = 2

\* ---------------------------------------------------------------------- C3
\* C3 (as claimed): no exception propagates out of get_teams,
\* get_team_members, create_team or add_members_to_team, whatever the
\* outcome of the request.
C3_NoExceptionPropagates ==
    raised_in \notin {"get_teams", "get_team_members", "create_team",
                      "add_members_to_team"}

\* ---------------------------------------------------------------------- C4
\* C4 (as claimed): a run that is over has returned from transfer_teams with
\* every listed team processed, whatever calls failed.
C4_EveryRunExitsNormally ==
    Halted =>
        /\ pc = "done"
        /\ TruthyList(teams) => i = Len(teams.v)

\* ---------------------------------------------------------------------- C7
\* C7: when add_members_to_team is called with a falsy identifier (the
\* created team's id is 0), no PUT is issued for that team, whatever the
\* member list, and the function returns: the loop is at a later team or
\* over, and no exception has come out of add_members_to_team.
C7_FalsyIdShortCircuits ==
    \A k \in TeamIndexes :
        LET created == ResultsOf("create_team", k)
            fetched == ResultsOf("get_team_members", k)
        IN  (/\ Len(created) = 1
             /\ ~created[1].value.none
             /\ created[1].value.v.id = 0) =>
                /\ RequestsFor("PUT", k) = <<>>
                /\ (Len(fetched) = 1 /\ TruthyList(fetched[1].value)) =>
                      /\ \/ (pc = "add_members_to_team" /\ i = k)
                         \/ k < i
                         \/ pc = "done"
                      /\ raised_in # "add_members_to_team" \/ k < i

\* Witness: add_members_to_team was called with identifier 0 and a member
\* list of two, and has returned.
C7_Witness ==
    \E k \in TeamIndexes :
        /\ Len(ResultsOf("create_team", k)) = 1
        /\ ResultsOf("create_team", k)[1].status = HTTP_CREATED
        /\ ResultsOf("create_team", k)[1].value.v.id = 0
        /\ Len(ResultsOf("get_team_members", k)) = 1
        /\ ~ResultsOf("get_team_members", k)[1].value.none
        /\ Len(ResultsOf("get_team_members", k)[1].value.v) = 2
        /\ (k < i \/ pc = "done")

\* ---------------------------------------------------------------------- C8
\* The identifiers of the teams of the source listing.
ListedIds == {teams.v[k].id : k \in 1..Len(teams.v)}

\* Each member-fetch GET goes to the source team's identifier, each PUT to
\* the identifier of the create-team answer and to no source team.
C8_Addressing ==
    \A n \in 1..Len(requests) :
        LET r == requests[n] IN
        /\ (r.method = "GET" /\ r.src > 0) => r.team_id = teams.v[r.src].id
        /\ r.method = "PUT" =>
              /\ r.team_id = ResultsOf("create_team", r.src)[1].value.v.id
              /\ r.team_id \notin ListedIds

\* C8 (as claimed): C8_Addressing, and no POST of the run is addressed to
\* the source organization.
C8_SourceNeverWritten ==
    /\ C8_Addressing
    /\ \A n \in 1..Len(requests) :
          requests[n].method = "POST" => requests[n].org # source_org

\* C8 (amended): C8_Addressing, and every POST is addressed to the
\* destination organization of the command line; it is addressed to the
\* source organization only when that same name was given as destination.
C8_WritesGoToDestination ==
    /\ C8_Addressing
    /\ \A n \in 1..Len(requests) :
          requests[n].method = "POST" =>
              /\ requests[n].org = destination_org
              /\ requests[n].org = source_org => destination_org = source_org

\* Witness: with distinct organizations, a team was created and a member
\* added to it.
C8_Witness ==
    /\ destination_org # source_org
    /\ \E n \in 1..Len(requests) : requests[n].method = "PUT"

\* ---------------------------------------------------------------------- C9
\* C9: when get_team_members returned from a status other than 200 for a
\* created team, that team got exactly its POST and its one member-fetch
\* GET (no PUT, no second GET, no other request), and the loop went on: it
\* is at a later team, or over if the team was the last one; a run that
\* returns has issued the POST of every listed team.
C9_FailedFetchSkipsTeam ==
    \A k \in TeamIndexes :
        LET fetched == ResultsOf("get_team_members", k) IN
        (Len(fetched) > 0 /\ fetched[1].status # HTTP_OK) =>
            /\ Len(fetched) = 1
            /\ SelectSeq(requests, LAMBDA r : r.src = k) =
                  <<CreateTeamRequest(destination_org, teams.v[k], k),
                    ListMembersRequest(teams.v[k].id, k)>>
            /\ IF k < Len(teams.v) THEN i > k ELSE pc = "done"
            /\ pc = "done" => Len(Posts) = Len(teams.v)

\* Witness: the member fetch of the first team failed and the POST of the
\* second team has been issued.
C9_Witness ==
    /\ Len(ResultsOf("get_team_members", 1)) = 1
    /\ ResultsOf("get_team_members", 1)[1].status # HTTP_OK
    /\ RequestsFor("POST", 2) # <<>>

\* --------------------------------------------------------------------- C10
\* C10: at most one request is outstanding, and one is exactly while a
\* function waits for its answer; the run starts with the listing, and every
\* later request follows the previous one as the loop orders them: a POST
\* opens the next team, a member-fetch GET follows its team's POST, a PUT
\* follows its team's member-fetch GET or previous PUT.
C10_StrictlySequential ==
    /\ outstanding = (IF pc \in DOMAIN Caller THEN 1 ELSE 0)
    /\ Len(requests) > 0 => requests[1] = ListTeamsRequest(source_org)
    /\ \A n \in 2..Len(requests) :
          LET r == requests[n]
              p == requests[n - 1]
          IN  /\ r.src > 0
              /\ r.method = "POST" => r.src = p.src + 1
              /\ r.method = "GET" => (p.method = "POST" /\ p.src = r.src)
              /\ r.method = "PUT" => (p.method \in {"GET", "PUT"} /\ p.src = r.src)

\* Witness: the first team got two PUTs and the POST of the second team has
\* been issued and is outstanding.
C10_Witness ==
    /\ pc = "create_team"
    /\ i = 2
    /\ Len(RequestsFor("PUT", 1)) = 2
====
